---- MODULE Spec2Model ----
(***************************************************************************)
(* A model of colorout (src/colorout.go): the line-buffering colorizer,    *)
(* the mutex-protected safeWriter and the orchestration in main.           *)
(*                                                                         *)
(* Bytes are one-character strings.  A destination stream is a sequence of *)
(* bytes and colour tokens: the escape sequence that switches colour i on  *)
(* is the token colors[i+1], the reset sequence is the token Reset.        *)
(***************************************************************************)
EXTENDS Integers, Sequences, FiniteSets, TLC

\* ------------------------------------------------------------- bounds
MaxLen == 3          \* longest input fed to the colorizer under SpecC
MaxWrites == 3       \* most Write calls on the colorizer under SpecC
MaxClose == 2        \* most Close calls on the colorizer under SpecC
MaxProducers == 2    \* most concurrent producers on one safeWriter under SpecS
MaxTasks == 2        \* most commands of a run that passes the palette check
MaxFailures == 1     \* most failing destination writes of a run under SpecF

\* -------------------------------------------------------------- bytes
LF == "\n"
CR == "\r"
Byte == {"a", LF, CR}
Reset == "Reset"

\* colorout.go:22-37, the palette (one token per colour)
colors ==
  << "FgHiRed", "FgHiGreen", "FgHiYellow", "FgHiBlue", "FgHiMagenta",
     "FgHiCyan", "FgHiWhite", "RevRed", "RevGreen", "RevYellow", "RevBlue",
     "RevMagenta", "RevCyan", "RevWhite" >>

ColorTokens == {colors[k] : k \in 1..Len(colors)} \cup {Reset}

SeqsUpTo(S, n) == UNION {[1..k -> S] : k \in 0..n}

\* ---------------------------------------------------- pure helpers
\* a search that finds nothing
IndexByte_Never(p, b) == -1

\* bytes.IndexByte(p, b): 0-based index of the first b in p, -1 if none
IndexByte(p, b) ==
  IF \E k \in 1..Len(p) : p[k] = b
    THEN (CHOOSE k \in 1..Len(p) : p[k] = b /\ \A j \in 1..(k-1) : p[j] # b) - 1
    ELSE -1

\* the decimal digits of n, as fmt's %d prints them
Digit(d) == CASE d = 0 -> "0" [] d = 1 -> "1" [] d = 2 -> "2" [] d = 3 -> "3"
              [] d = 4 -> "4" [] d = 5 -> "5" [] d = 6 -> "6" [] d = 7 -> "7"
              [] d = 8 -> "8" [] d = 9 -> "9"

RECURSIVE Decimal(_)
Decimal(n) == IF n < 10 THEN <<Digit(n)>> ELSE Decimal(n \div 10) \o <<Digit(n % 10)>>

\* fmt.Sprintf("%d> ", i)   (colorout.go:97)
Prefix(i) == Decimal(i) \o <<">", " ">>

\* colorize(dst, i)   (colorout.go:94-100); trailer starts nil
colorize(i) == [Prefix |-> Prefix(i), Color |-> colors[i + 1], trailer |-> <<>>]

\* a Write that hands its lines to the sink last line first
RECURSIVE WriteLoop_Reversed(_, _, _, _, _)
WriteLoop_Reversed(c, noColor, p, calls, okLines) ==
  LET pos == IndexByte(p, "\n") IN
  IF pos = -1
    THEN [c |-> [c EXCEPT !.trailer = p], calls |-> calls, err |-> FALSE]
    ELSE LET text == c.Prefix \o c.trailer \o SubSeq(p, 1, pos) \o <<"\n">>
             these == IF noColor THEN <<text>>
                      ELSE << <<c.Color>>, text, <<"Reset">> >>
         IN WriteLoop_Reversed([c EXCEPT !.trailer = <<>>], noColor,
                               SubSeq(p, pos + 2, Len(p)), these \o calls, okLines)

\* a formatter that drops a carriage return before the newline
FormatLine_StripCR(c, prev, line) ==
  LET t == prev \o line
  IN c.Prefix \o (IF t # <<>> /\ t[Len(t)] = CR THEN SubSeq(t, 1, Len(t) - 1) ELSE t)
       \o <<LF>>

\* fmt's "%s%s%s\n" of (Prefix, prev, line)   (colorout.go:111)
FormatLine(c, prev, line) == c.Prefix \o prev \o line \o <<LF>>

\* Color.Fprintf(W, ...): the sequence of Write calls it makes on W.  With
\* colours disabled it is the one Write of fmt.Fprintf; with colours enabled
\* the library first writes the colour-on sequence, then the formatted text,
\* then the reset sequence, each with a Write call of its own.
ColorFprintf(c, noColor, data) ==
  IF noColor THEN <<data>> ELSE << <<c.Color>>, data, <<Reset>> >>

\* colorizer.write(prev, line)   (colorout.go:110-113): the Write calls made
\* on c.W; sinkOK says whether the sink accepts them.
write(c, noColor, prev, line, sinkOK) ==
  [calls |-> IF sinkOK THEN ColorFprintf(c, noColor, FormatLine(c, prev, line))
                       ELSE <<>>,
   err |-> ~sinkOK]

\* the carry kept when p holds no newline   (colorout.go:124)
KeepTrailer(trailer, p) == p

\* colorizer.Write(p)   (colorout.go:119-134).  okLines is the number of
\* line writes the sink accepts before it fails (-1: it never fails).
RECURSIVE WriteLoop(_, _, _, _, _)
WriteLoop(c, noColor, p, calls, okLines) ==
  LET pos == IndexByte(p, LF) IN
  IF pos = -1
    THEN [c |-> [c EXCEPT !.trailer = KeepTrailer(c.trailer, p)],
          calls |-> calls, err |-> FALSE]
    ELSE LET line == SubSeq(p, 1, pos)
             r == write(c, noColor, c.trailer, line, okLines # 0)
         IN IF r.err
              THEN [c |-> c, calls |-> calls, err |-> TRUE]
              ELSE WriteLoop([c EXCEPT !.trailer = <<>>], noColor,
                             SubSeq(p, pos + 2, Len(p)), calls \o r.calls,
                             IF okLines > 0 THEN okLines - 1 ELSE okLines)

Write(c, noColor, p, okLines) ==
  [n |-> Len(p)] @@ WriteLoop(c, noColor, p, <<>>, okLines)

\* a Close that flushes even an empty trailer
Close_Always(c, noColor, sinkOK) ==
  LET r == write(c, noColor, c.trailer, <<>>, sinkOK)
  IN [c |-> c, calls |-> r.calls, err |-> r.err]

\* colorizer.Close()   (colorout.go:137-142)
Close(c, noColor, sinkOK) ==
  IF Len(c.trailer) > 0
    THEN LET r == write(c, noColor, c.trailer, <<>>, sinkOK)
         IN [c |-> c, calls |-> r.calls, err |-> r.err]
    ELSE [c |-> c, calls |-> <<>>, err |-> FALSE]

RECURSIVE Flatten(_)
Flatten(ss) == IF ss = <<>> THEN <<>> ELSE Head(ss) \o Flatten(Tail(ss))

\* ------------------------------------------------ reading a destination
IsData(t) == t \notin ColorTokens

\* the destination with its colour sequences removed
StripColor(d) == SelectSeq(d, IsData)

\* the newline-terminated lines of d, without their newline (and an
\* unterminated rest, if any, as a last element)
RECURSIVE SplitLines(_)
SplitLines(d) ==
  LET pos == IndexByte(d, LF) IN
  IF pos = -1 THEN (IF d = <<>> THEN <<>> ELSE <<d>>)
  ELSE <<SubSeq(d, 1, pos)>> \o SplitLines(SubSeq(d, pos + 2, Len(d)))

HasPrefix(line, pfx) ==
  Len(line) >= Len(pfx) /\ SubSeq(line, 1, Len(pfx)) = pfx

\* the texts of the labelled lines of d: colour and prefix stripped
LineTexts(d, pfx) ==
  LET ls == SplitLines(StripColor(d))
  IN [k \in 1..Len(ls) |->
        IF HasPrefix(ls[k], pfx) THEN SubSeq(ls[k], Len(pfx) + 1, Len(ls[k]))
        ELSE ls[k]]

NumNewlines(p) == Cardinality({k \in 1..Len(p) : p[k] = LF})

\* the bytes of p after its last newline
Remainder(p) ==
  LET nl == {k \in 1..Len(p) : p[k] = LF}
  IN IF nl = {} THEN p
     ELSE SubSeq(p, (CHOOSE k \in nl : \A j \in nl : j <= k) + 1, Len(p))

\* the newline-terminated segments of p, without their newline
Terminated(p) ==
  LET ls == SplitLines(p)
  IN IF p # <<>> /\ p[Len(p)] # LF THEN SubSeq(ls, 1, Len(ls) - 1) ELSE ls

\* ======================================================================
\* State
\* ======================================================================
VARIABLES
  noColor,   \* color.NoColor: the colour library writes no escape sequences
  \* --- one colorizer driven by a caller (SpecC)
  idx,       \* the task index the colorizer was made for
  input,     \* all the bytes the caller is going to write
  rest,      \* the bytes not yet passed to Write
  c,         \* the colorizer: Prefix, Color, trailer
  dest,      \* what its sink has received
  nwrites,   \* Write calls made
  nclose,    \* Close calls made
  closedEarly, \* a Write followed a Close
  werr,      \* some Write or Close returned an error
  last,      \* the last call: op, chunk, and the trailer and Len(dest) before it
  \* --- producers writing lines through one safeWriter (SpecS)
  np,        \* the number of producers; producer p writes as task p - 1
  chunk,     \* chunk[p]: the complete line(s) producer p passes to its colorizer
  ppc,       \* ppc[p]: "start", "lock", "write", "unlock" or "done"
  calls,     \* calls[p]: the safeWriter.Write calls p still has to make
  off,       \* off[p]: bytes of the current call already in the destination
  mu,        \* safeWriter.mu is locked
  W,         \* safeWriter.W: the destination, each byte with the call it is from
  ret,       \* ret[p]: n and err of p's safeWriter.Write call, once W.Write returned
  failed,    \* the calls <<p, number>> whose destination write failed
  cerr,      \* cerr[p]: p's colorizer.Write returns an error
  \* --- a run of main (Spec)
  tasks,     \* flag.Args(): tasks[i] is the command of task i
  fail,      \* the -fail flag
  mainpc,    \* main is at: "check", "loop", "wait", "returned" or "fatal"
  wg,        \* the WaitGroup counter
  ctx,       \* the context is cancelled
  colorOut,  \* colorOut[i]: task i's stdout colorizer, once made
  colorErr,  \* colorErr[i]: task i's stderr colorizer, once made
  stdout,    \* stdout[i]: what os.Stdout received for task i, in order
  stderr,    \* stderr[i]: what os.Stderr received for task i, in order
  gpc,       \* gpc[i]: task i's goroutine is at: "none" (not started), "run",
             \*   "diag", "cancel", "close", "exited"
  proc,      \* proc[i]: the subprocess: "none", "running", "exited", "killed"
  pout,      \* pout[i]: what the subprocess has still to write to its stdout
  perr,      \* perr[i]: what the subprocess has still to write to its stderr
  err,       \* err[i]: what runCommand returned ("none": not yet)
  ranAtCancel \* the tasks inside runCommand when the context was cancelled

cvars == <<idx, input, rest, c, dest, nwrites, nclose, closedEarly, werr, last>>
svars == <<np, chunk, ppc, calls, off, mu, W, ret, failed, cerr>>
ovars == <<tasks, fail, mainpc, wg, ctx, colorOut, colorErr, stdout, stderr,
           gpc, proc, pout, perr, err, ranAtCancel>>
vars == <<noColor, cvars, svars, ovars>>

\* the variables of the other specifications, at rest
IdleC ==
  /\ idx = 0 /\ input = <<>> /\ rest = <<>> /\ c = colorize(0) /\ dest = <<>>
  /\ nwrites = 0 /\ nclose = 0 /\ closedEarly = FALSE /\ werr = FALSE
  /\ last = [op |-> "none", p |-> <<>>, trailer |-> <<>>, destLen |-> 0, err |-> FALSE]

IdleS ==
  /\ np = 0 /\ chunk = <<>> /\ ppc = <<>> /\ calls = <<>> /\ off = <<>>
  /\ mu = FALSE /\ W = <<>> /\ ret = <<>> /\ failed = {} /\ cerr = <<>>

IdleO ==
  /\ tasks = <<>> /\ fail = FALSE /\ mainpc = "returned" /\ wg = 0 /\ ctx = TRUE
  /\ colorOut = <<>> /\ colorErr = <<>> /\ stdout = <<>> /\ stderr = <<>>
  /\ gpc = <<>> /\ proc = <<>> /\ pout = <<>> /\ perr = <<>> /\ err = <<>>
  /\ ranAtCancel = {}

\* the task indices the colorizer of SpecC is made for
TaskIdx == {0, 11}

NoCall == [op |-> "none", p |-> <<>>, trailer |-> <<>>, destLen |-> 0, err |-> FALSE]

InitC ==
  /\ noColor \in BOOLEAN
  /\ idx \in TaskIdx
  /\ input \in SeqsUpTo(Byte, MaxLen)
  /\ rest = input
  /\ c = colorize(idx)
  /\ dest = <<>>
  /\ nwrites = 0
  /\ nclose = 0
  /\ closedEarly = FALSE
  /\ werr = FALSE
  /\ last = NoCall
  /\ IdleS
  /\ IdleO

\* the caller passes the next k bytes to colorizer.Write; as io.Copy does, it
\* stops writing once a Write has returned an error
CWrite ==
  /\ nwrites < MaxWrites
  /\ ~werr
  /\ \E k \in 0..Len(rest) :
       LET p == SubSeq(rest, 1, k) IN
       \E okLines \in (-1)..(NumNewlines(p) - 1) :
         LET r == Write(c, noColor, p, okLines) IN
         /\ rest' = SubSeq(rest, k + 1, Len(rest))
         /\ c' = r.c
         /\ dest' = dest \o Flatten(r.calls)
         /\ werr' = (werr \/ r.err)
         /\ last' = [op |-> "Write", p |-> p, trailer |-> c.trailer,
                    destLen |-> Len(dest), err |-> r.err]
  /\ nwrites' = nwrites + 1
  /\ closedEarly' = (closedEarly \/ nclose > 0)
  /\ UNCHANGED <<noColor, idx, input, nclose, svars, ovars>>

\* the caller calls colorizer.Close
CClose ==
  /\ nclose < MaxClose
  /\ \E sinkOK \in BOOLEAN :
       LET r == Close(c, noColor, sinkOK) IN
       /\ c' = r.c
       /\ dest' = dest \o Flatten(r.calls)
       /\ werr' = (werr \/ r.err)
       /\ last' = [op |-> "Close", p |-> <<>>, trailer |-> c.trailer,
                  destLen |-> Len(dest), err |-> r.err]
  /\ nclose' = nclose + 1
  /\ UNCHANGED <<noColor, idx, input, rest, nwrites, closedEarly, svars, ovars>>

NextC == CWrite \/ CClose

SpecC == InitC /\ [][NextC]_vars

\* ======================================================================
\* Producers on one safeWriter (SpecS): task goroutines whose colorizers
\* share one sink.  The destination takes the bytes of a Write one at a time
\* and, under SpecF, may fail a Write after any number of them.
\* ======================================================================
\* the complete lines a producer writes
LineChunks == {<<LF>>, <<"a", LF>>}

NoRet == [no |-> 0, len |-> 0, n |-> 0, err |-> FALSE]

InitS ==
  /\ noColor \in BOOLEAN
  /\ IdleC
  /\ IdleO
  /\ np \in 1..MaxProducers
  /\ chunk \in [1..np -> LineChunks]
  /\ ppc = [p \in 1..np |-> "start"]
  /\ calls = [p \in 1..np |-> <<>>]
  /\ off = [p \in 1..np |-> 0]
  /\ mu = FALSE
  /\ W = <<>>
  /\ ret = [p \in 1..np |-> NoRet]
  /\ failed = {}
  /\ cerr = [p \in 1..np |-> FALSE]

\* a Lock that never waits
MutexFree_NoWait == TRUE

\* sync.Mutex: Lock returns only while no one holds the mutex
MutexFree == ~mu

\* the k-th Write call of a colorizer.Write: which line it belongs to and
\* whether it is the line's text (the fmt.Fprintf inside Color.Fprintf) or a
\* colour sequence written around it
CallLine(k) == IF noColor THEN k ELSE ((k - 1) \div 3) + 1
CallKind(k) == IF noColor \/ k % 3 = 2 THEN "text" ELSE "colour"

\* producer p's colorizer.Write(chunk[p]): the safeWriter.Write calls it makes
\* when none fails (colorout.go:119-134 and 110-113), each tagged with its number
PWrite(p) ==
  /\ ppc[p] = "start"
  /\ LET r == Write(colorize(p - 1), noColor, chunk[p], -1)
     IN /\ calls' = [calls EXCEPT ![p] =
                       [k \in 1..Len(r.calls) |-> [no |-> k, data |-> r.calls[k]]]]
        /\ ppc' = [ppc EXCEPT ![p] = IF r.calls = <<>> THEN "done" ELSE "lock"]
  /\ UNCHANGED <<noColor, cvars, ovars, np, chunk, off, mu, W, ret, failed, cerr>>

\* safeWriter.Write: s.mu.Lock()   (colorout.go:151)
SWLock(p) ==
  /\ ppc[p] = "lock"
  /\ MutexFree
  /\ mu' = TRUE
  /\ off' = [off EXCEPT ![p] = 0]
  /\ ppc' = [ppc EXCEPT ![p] = "write"]
  /\ UNCHANGED <<noColor, cvars, ovars, np, chunk, calls, W, ret, failed, cerr>>

\* safeWriter.Write: n, err = s.W.Write(data), the destination taking one more
\* byte of it; after the last byte the call returns (len(data), nil)
\* (colorout.go:152)
SWWriteByte(p) ==
  /\ ppc[p] = "write"
  /\ LET call == Head(calls[p])
         end == off[p] + 1 = Len(call.data)
     IN /\ W' = Append(W, [b |-> call.data[off[p] + 1], by |-> p, call |-> call.no])
        /\ off' = [off EXCEPT ![p] = off[p] + 1]
        /\ ppc' = [ppc EXCEPT ![p] = IF end THEN "unlock" ELSE "write"]
        /\ ret' = [ret EXCEPT ![p] =
                     IF end THEN [no |-> call.no, len |-> Len(call.data),
                                  n |-> Len(call.data), err |-> FALSE]
                     ELSE @]
  /\ UNCHANGED <<noColor, cvars, ovars, np, chunk, calls, mu, failed, cerr>>

\* safeWriter.Write: n, err = s.W.Write(data), the destination failing after
\* the bytes it has taken so far   (colorout.go:152)
SWWriteFail(p) ==
  /\ ppc[p] = "write"
  /\ Cardinality(failed) < MaxFailures
  /\ LET call == Head(calls[p])
     IN /\ ret' = [ret EXCEPT ![p] = [no |-> call.no, len |-> Len(call.data),
                                     n |-> off[p], err |-> TRUE]]
        /\ failed' = failed \cup {<<p, call.no>>}
  /\ ppc' = [ppc EXCEPT ![p] = "unlock"]
  /\ UNCHANGED <<noColor, cvars, ovars, np, chunk, calls, off, mu, W, cerr>>

\* what the colorizer goes on to write after a call of number k returned e:
\* Color.Fprintf returns the error of the text's Write and still writes the
\* reset sequence of that line; colorizer.write hands the error to
\* colorizer.Write, which returns it and writes no further line
\* (colorout.go:111, 128-130).  The error of a colour sequence's Write is not
\* part of what Color.Fprintf returns.
Propagated(k, e) == e /\ CallKind(k) = "text"

RestCalls(cs, k, e) ==
  IF Propagated(k, e)
    THEN SelectSeq(Tail(cs), LAMBDA x : CallLine(x.no) = CallLine(k))
    ELSE Tail(cs)

\* safeWriter.Write: s.mu.Unlock() and return n, err   (colorout.go:153-154)
SWUnlock(p) ==
  /\ ppc[p] = "unlock"
  /\ mu' = FALSE
  /\ LET k == Head(calls[p]).no
         rc == RestCalls(calls[p], k, ret[p].err)
     IN /\ calls' = [calls EXCEPT ![p] = rc]
        /\ cerr' = [cerr EXCEPT ![p] = @ \/ Propagated(k, ret[p].err)]
        /\ ppc' = [ppc EXCEPT ![p] = IF rc = <<>> THEN "done" ELSE "lock"]
  /\ UNCHANGED <<noColor, cvars, ovars, np, chunk, off, W, ret, failed>>

\* a destination that never fails
NextS ==
  \/ \E p \in 1..np : PWrite(p)
  \/ \E p \in 1..np : SWLock(p)
  \/ \E p \in 1..np : SWWriteByte(p)
  \/ \E p \in 1..np : SWUnlock(p)

SpecS == InitS /\ [][NextS]_vars

\* a destination that may fail
NextF ==
  \/ \E p \in 1..np : PWrite(p)
  \/ \E p \in 1..np : SWLock(p)
  \/ \E p \in 1..np : SWWriteByte(p)
  \/ \E p \in 1..np : SWWriteFail(p)
  \/ \E p \in 1..np : SWUnlock(p)

SpecF == InitS /\ [][NextF]_vars

\* ======================================================================
\* A run of main (Spec).  stdout[i] and stderr[i] hold what the two streams
\* received for task i; every write for one task on one stream is made in
\* sequence (by main, then by the subprocess's copier, then by the task's
\* goroutine), so a colorizer call and the sink writes it makes are one step.
\* ======================================================================
\* the commands of the model: what the subprocess writes, its exit status,
\* and whether it ever exits on its own
Commands ==
  { [name |-> "echo", out |-> <<LF, "a", LF>>, err |-> <<>>, code |-> 0, exits |-> TRUE],
    [name |-> "bad", out |-> <<>>, err |-> <<"b", "b">>, code |-> 1, exits |-> TRUE],
    [name |-> "sleep", out |-> <<>>, err |-> <<>>, code |-> 0, exits |-> FALSE] }

Tasks == DOMAIN tasks
NumTasks == Cardinality(Tasks)

\* fmt's "%d> Running: %s\n" of (i, command)   (colorout.go:59)
Announcement(i, command) ==
  Decimal(i) \o <<">", " ", "Running: ", command.name, LF>>

\* fmt's "%d> command failed with %v\n" of (i, err)   (colorout.go:63)
Diagnostic(i, e) ==
  Decimal(i) \o <<">", " ", "command failed with ", e, LF>>

Init ==
  /\ noColor \in BOOLEAN
  /\ IdleC
  /\ IdleS
  /\ \E n \in (1..MaxTasks) \cup {Len(colors) + 1} :
       IF n > Len(colors)
         THEN tasks = [i \in 0..(n - 1) |-> CHOOSE cmd \in Commands : cmd.name = "echo"]
         ELSE tasks \in [0..(n - 1) -> Commands]
  /\ fail \in BOOLEAN
  /\ mainpc = "check"
  /\ wg = 0
  /\ ctx = FALSE
  /\ colorOut = <<>>
  /\ colorErr = <<>>
  /\ stdout = [i \in Tasks |-> <<>>]
  /\ stderr = [i \in Tasks |-> <<>>]
  /\ gpc = [i \in Tasks |-> "none"]
  /\ proc = [i \in Tasks |-> "none"]
  /\ pout = [i \in Tasks |-> <<>>]
  /\ perr = [i \in Tasks |-> <<>>]
  /\ err = [i \in Tasks |-> "none"]
  /\ ranAtCancel = {}

\* a palette check that never refuses
TooManyTasks_Never == FALSE

\* len(tasks) > len(colors)   (colorout.go:44)
TooManyTasks == NumTasks > Len(colors)

\* main: the palette check (log.Fatal ends the process) and wg.Add
\* (colorout.go:44-55)
MainCheck ==
  /\ mainpc = "check"
  /\ IF TooManyTasks
       THEN /\ mainpc' = "fatal"
            /\ wg' = wg
       ELSE /\ mainpc' = IF NumTasks = 0 THEN "wait" ELSE "loop"
            /\ wg' = wg + NumTasks
  /\ UNCHANGED <<noColor, cvars, svars, tasks, fail, ctx, colorOut, colorErr,
                 stdout, stderr, gpc, proc, pout, perr, err, ranAtCancel>>

\* main: one iteration of the loop: the two colorizers, the announcement
\* written through colorErr, and the go statement   (colorout.go:56-72)
MainLoop ==
  /\ mainpc = "loop"
  /\ LET i == Cardinality(DOMAIN colorOut)
         r == Write(colorize(i), noColor, Announcement(i, tasks[i]), -1)
     IN /\ colorOut' = colorOut @@ (i :> colorize(i))
        /\ colorErr' = colorErr @@ (i :> r.c)
        /\ stderr' = [stderr EXCEPT ![i] = @ \o Flatten(r.calls)]
        /\ gpc' = [gpc EXCEPT ![i] = "run"]
        /\ mainpc' = IF i + 1 = NumTasks THEN "wait" ELSE "loop"
  /\ UNCHANGED <<noColor, cvars, svars, tasks, fail, wg, ctx, stdout,
                 proc, pout, perr, err, ranAtCancel>>

\* a Wait that does not wait
WgZero_NoWait == TRUE

\* wg.Wait returns once the counter is zero
WgZero == wg = 0

\* main: wg.Wait(), then the deferred cancel and the return   (colorout.go:55,73-74)
MainWait ==
  /\ mainpc = "wait"
  /\ WgZero
  /\ mainpc' = "returned"
  /\ ctx' = TRUE
  /\ UNCHANGED <<noColor, cvars, svars, tasks, fail, wg, colorOut, colorErr,
                 stdout, stderr, gpc, proc, pout, perr, err, ranAtCancel>>

\* runCommand: cmd.Start()   (colorout.go:77-83).  A CommandContext whose
\* context is already done does not start; otherwise the start succeeds or
\* fails (the shell cannot be run).
Start(i) ==
  /\ mainpc # "returned"
  /\ gpc[i] = "run" /\ proc[i] = "none"
  /\ IF ctx
       THEN /\ err' = [err EXCEPT ![i] = "context canceled"]
            /\ gpc' = [gpc EXCEPT ![i] = "diag"]
            /\ UNCHANGED <<proc, pout, perr>>
       ELSE \/ /\ proc' = [proc EXCEPT ![i] = "running"]
               /\ pout' = [pout EXCEPT ![i] = tasks[i].out]
               /\ perr' = [perr EXCEPT ![i] = tasks[i].err]
               /\ UNCHANGED <<err, gpc>>
            \/ /\ err' = [err EXCEPT ![i] = "start failure"]
               /\ gpc' = [gpc EXCEPT ![i] = "diag"]
               /\ UNCHANGED <<proc, pout, perr>>
  /\ UNCHANGED <<noColor, cvars, svars, tasks, fail, mainpc, wg, ctx, colorOut,
                 colorErr, stdout, stderr, ranAtCancel>>

\* the subprocess writes the next bytes of its stdout and the copier of
\* cmd.Stdout passes them to colorOut.Write   (colorout.go:79)
CopyOut(i) ==
  /\ mainpc # "returned"
  /\ gpc[i] = "run" /\ proc[i] = "running" /\ pout[i] # <<>>
  /\ \E k \in 1..Len(pout[i]) :
       LET r == Write(colorOut[i], noColor, SubSeq(pout[i], 1, k), -1)
       IN /\ colorOut' = [colorOut EXCEPT ![i] = r.c]
          /\ stdout' = [stdout EXCEPT ![i] = @ \o Flatten(r.calls)]
          /\ pout' = [pout EXCEPT ![i] = SubSeq(@, k + 1, Len(@))]
  /\ UNCHANGED <<noColor, cvars, svars, tasks, fail, mainpc, wg, ctx, colorErr,
                 stderr, gpc, proc, perr, err, ranAtCancel>>

\* the same for its stderr and colorErr.Write   (colorout.go:80)
CopyErr(i) ==
  /\ mainpc # "returned"
  /\ gpc[i] = "run" /\ proc[i] = "running" /\ perr[i] # <<>>
  /\ \E k \in 1..Len(perr[i]) :
       LET r == Write(colorErr[i], noColor, SubSeq(perr[i], 1, k), -1)
       IN /\ colorErr' = [colorErr EXCEPT ![i] = r.c]
          /\ stderr' = [stderr EXCEPT ![i] = @ \o Flatten(r.calls)]
          /\ perr' = [perr EXCEPT ![i] = SubSeq(@, k + 1, Len(@))]
  /\ UNCHANGED <<noColor, cvars, svars, tasks, fail, mainpc, wg, ctx, colorOut,
                 stdout, gpc, proc, pout, err, ranAtCancel>>

\* the subprocess, having written all its output, exits on its own
Exit(i) ==
  /\ mainpc # "returned"
  /\ proc[i] = "running" /\ tasks[i].exits
  /\ pout[i] = <<>> /\ perr[i] = <<>>
  /\ proc' = [proc EXCEPT ![i] = "exited"]
  /\ UNCHANGED <<noColor, cvars, svars, tasks, fail, mainpc, wg, ctx, colorOut,
                 colorErr, stdout, stderr, gpc, pout, perr, err, ranAtCancel>>

\* the context of a running command is done: CommandContext kills the
\* subprocess (colorout.go:78); what it had not written yet is never written
Kill(i) ==
  /\ mainpc # "returned"
  /\ proc[i] = "running" /\ ctx
  /\ proc' = [proc EXCEPT ![i] = "killed"]
  /\ UNCHANGED <<noColor, cvars, svars, tasks, fail, mainpc, wg, ctx, colorOut,
                 colorErr, stdout, stderr, gpc, pout, perr, err, ranAtCancel>>

\* what cmd.Wait returns for a subprocess that has ended
WaitResult(i) ==
  IF proc[i] = "killed" THEN "signal: killed"
  ELSE IF tasks[i].code # 0 THEN "exit status 1"
  ELSE "nil"

\* a goroutine that goes on to close its colorizers whatever Wait returned
Wait_SkipsDiag(i) ==
  /\ mainpc # "returned"
  /\ gpc[i] = "run" /\ proc[i] \in {"exited", "killed"}
  /\ err' = [err EXCEPT ![i] = WaitResult(i)]
  /\ gpc' = [gpc EXCEPT ![i] = "close"]
  /\ UNCHANGED <<noColor, cvars, svars, tasks, fail, mainpc, wg, ctx, colorOut,
                 colorErr, stdout, stderr, proc, pout, perr, ranAtCancel>>

\* runCommand: cmd.Wait() returns, once the subprocess has ended (what it
\* wrote is copied by then)   (colorout.go:84-87), and the goroutine tests err (62)
Wait(i) ==
  /\ mainpc # "returned"
  /\ gpc[i] = "run" /\ proc[i] \in {"exited", "killed"}
  /\ err' = [err EXCEPT ![i] = WaitResult(i)]
  /\ gpc' = [gpc EXCEPT ![i] = IF WaitResult(i) = "nil" THEN "close" ELSE "diag"]
  /\ UNCHANGED <<noColor, cvars, svars, tasks, fail, mainpc, wg, ctx, colorOut,
                 colorErr, stdout, stderr, proc, pout, perr, ranAtCancel>>

\* a goroutine that cancels on failure whatever the flag says
Diag_AlwaysCancel(i) ==
  /\ mainpc # "returned"
  /\ gpc[i] = "diag"
  /\ stderr' = [stderr EXCEPT ![i] = @ \o Diagnostic(i, err[i])]
  /\ gpc' = [gpc EXCEPT ![i] = "cancel"]
  /\ UNCHANGED <<noColor, cvars, svars, tasks, fail, mainpc, wg, ctx, colorOut,
                 colorErr, stdout, proc, pout, perr, err, ranAtCancel>>

\* the goroutine: the diagnostic, written to stderr itself   (colorout.go:63-64)
Diag(i) ==
  /\ mainpc # "returned"
  /\ gpc[i] = "diag"
  /\ stderr' = [stderr EXCEPT ![i] = @ \o Diagnostic(i, err[i])]
  /\ gpc' = [gpc EXCEPT ![i] = IF fail THEN "cancel" ELSE "close"]
  /\ UNCHANGED <<noColor, cvars, svars, tasks, fail, mainpc, wg, ctx, colorOut,
                 colorErr, stdout, proc, pout, perr, err, ranAtCancel>>

\* a goroutine that forgets to cancel
Cancel_Forgets(i) ==
  /\ mainpc # "returned"
  /\ gpc[i] = "cancel"
  /\ gpc' = [gpc EXCEPT ![i] = "close"]
  /\ UNCHANGED <<noColor, cvars, svars, tasks, fail, mainpc, wg, ctx, colorOut,
                 colorErr, stdout, stderr, proc, pout, perr, err, ranAtCancel>>

\* the goroutine: cancel()   (colorout.go:65)
Cancel(i) ==
  /\ mainpc # "returned"
  /\ gpc[i] = "cancel"
  /\ ctx' = TRUE
  /\ ranAtCancel' = IF ctx THEN ranAtCancel ELSE {j \in Tasks : proc[j] = "running"}
  /\ gpc' = [gpc EXCEPT ![i] = "close"]
  /\ UNCHANGED <<noColor, cvars, svars, tasks, fail, mainpc, wg, colorOut,
                 colorErr, stdout, stderr, proc, pout, perr, err>>

\* a goroutine that ends without wg.Done()
Finish_NoDone(i) ==
  /\ mainpc # "returned"
  /\ gpc[i] = "close"
  /\ LET ro == Close(colorOut[i], noColor, TRUE)
         re == Close(colorErr[i], noColor, TRUE)
     IN /\ colorOut' = [colorOut EXCEPT ![i] = ro.c]
        /\ stdout' = [stdout EXCEPT ![i] = @ \o Flatten(ro.calls)]
        /\ colorErr' = [colorErr EXCEPT ![i] = re.c]
        /\ stderr' = [stderr EXCEPT ![i] = @ \o Flatten(re.calls)]
  /\ gpc' = [gpc EXCEPT ![i] = "exited"]
  /\ UNCHANGED <<noColor, cvars, svars, tasks, fail, mainpc, wg, ctx,
                 proc, pout, perr, err, ranAtCancel>>

\* the goroutine: colorOut.Close(), colorErr.Close() and wg.Done()
\* (colorout.go:68-70)
Finish(i) ==
  /\ mainpc # "returned"
  /\ gpc[i] = "close"
  /\ LET ro == Close(colorOut[i], noColor, TRUE)
         re == Close(colorErr[i], noColor, TRUE)
     IN /\ colorOut' = [colorOut EXCEPT ![i] = ro.c]
        /\ stdout' = [stdout EXCEPT ![i] = @ \o Flatten(ro.calls)]
        /\ colorErr' = [colorErr EXCEPT ![i] = re.c]
        /\ stderr' = [stderr EXCEPT ![i] = @ \o Flatten(re.calls)]
  /\ wg' = wg - 1
  /\ gpc' = [gpc EXCEPT ![i] = "exited"]
  /\ UNCHANGED <<noColor, cvars, svars, tasks, fail, mainpc, ctx,
                 proc, pout, perr, err, ranAtCancel>>

Next ==
  \/ MainCheck
  \/ MainLoop
  \/ MainWait
  \/ \E i \in Tasks : Start(i)
  \/ \E i \in Tasks : CopyOut(i)
  \/ \E i \in Tasks : CopyErr(i)
  \/ \E i \in Tasks : Exit(i)
  \/ \E i \in Tasks : Kill(i)
  \/ \E i \in Tasks : Wait(i)
  \/ \E i \in Tasks : Diag(i)
  \/ \E i \in Tasks : Cancel(i)
  \/ \E i \in Tasks : Finish(i)

Spec == Init /\ [][Next]_vars

\* the Go scheduler runs every runnable goroutine, and a subprocess that
\* exits on its own does exit
SpecFair == Spec /\ WF_vars(Next)

\* the task's state in the terms of the orchestrator's state machine
TaskState(i) ==
  IF gpc[i] = "none" THEN "Pending"
  ELSE IF err[i] = "none" THEN "Running"
  ELSE IF err[i] = "nil" THEN "Succeeded"
  ELSE IF err[i] \in {"signal: killed", "context canceled"} THEN "Cancelled"
  ELSE "Failed"

Terminal(i) == TaskState(i) \in {"Succeeded", "Failed", "Cancelled"}

\* ======================================================================
\* Properties of the colorizer (checked under SpecC)
\* ======================================================================
pfx == Prefix(idx)

\* the destination after one Write of all of inp followed by one Close
WholeRun(i, nc, inp) ==
  LET w == Write(colorize(i), nc, inp, -1)
      cl == Close(w.c, nc, TRUE)
  IN Flatten(w.calls) \o Flatten(cl.calls)

\* the whole input was written, in any chunking, and Close came only afterwards
AllWritten == rest = <<>> /\ ~closedEarly /\ ~werr

\* what the last call appended to the destination, as line texts
NewTexts == LineTexts(SubSeq(dest, last.destLen + 1, Len(dest)), pfx)

C2_CloseEmitsRemainder ==
  (AllWritten /\ nclose = 1 /\ last.op = "Close"
     /\ input # <<>> /\ input[Len(input)] # LF)
    => /\ Len(NewTexts) = 1
       /\ NewTexts[1] = Remainder(input)

\* C3: Close is idempotent: a Close on a non-empty carry clears the carry, and
\* a second Close with no Write in between emits nothing.
C3_CloseIdempotent ==
  /\ (last.op = "Close" /\ Len(last.trailer) > 0 /\ ~last.err) => c.trailer = <<>>
  /\ (last.op = "Close" /\ nclose = 2 /\ ~closedEarly) => Len(dest) = last.destLen

\* C4: an input of exactly k newline-terminated lines, in any chunking, yields
\* exactly k labelled lines, each with the prefix of the colorizer's own task
\* index and of no other; Close adds nothing.
C4_KLabelledLines ==
  (AllWritten /\ (input = <<>> \/ input[Len(input)] = LF))
    => LET d == StripColor(dest)
           ls == SplitLines(d)
       IN /\ Len(ls) = NumNewlines(input)
          /\ NumNewlines(d) = NumNewlines(input)
          /\ \A k \in 1..Len(ls) :
               /\ HasPrefix(ls[k], pfx)
               /\ \A j \in 0..(Len(colors) - 1) : j # idx => ~HasPrefix(ls[k], Prefix(j))

C4_Witness ==
  /\ AllWritten /\ input = <<"a", LF, LF>>
  /\ nwrites = 3 /\ nclose = 1
  /\ Len(SplitLines(StripColor(dest))) = 2

\* C5: a Write with an empty chunk is a no-op: it emits nothing and leaves the
\* carry as it was.
C5_EmptyWriteNoOp ==
  (last.op = "Write" /\ last.p = <<>>)
    => (Len(dest) = last.destLen /\ c.trailer = last.trailer)

\* a segment without one carriage return at its end
StripCR(seg) ==
  IF seg # <<>> /\ seg[Len(seg)] = CR THEN SubSeq(seg, 1, Len(seg) - 1) ELSE seg

\* C6 as stated: for every newline found in carry + chunk, the emitted text
\* excludes the newline and a carriage return immediately preceding it.
C6_ExcludesNewlineAndCR ==
  (last.op = "Write" /\ ~last.err)
    => LET want == Terminated(last.trailer \o last.p)
       IN NewTexts = [k \in 1..Len(want) |-> StripCR(want[k])]

\* C6 as amended: for every newline found in carry + chunk, the emitted text
\* excludes the newline itself and nothing else: a carriage return immediately
\* preceding the newline stays, as the last byte of the text.
C6_ExcludesNewlineOnly ==
  last.op = "Write"
    => LET want == Terminated(last.trailer \o last.p)
       IN /\ Len(NewTexts) <= Len(want)
          /\ NewTexts = SubSeq(want, 1, Len(NewTexts))
          /\ ~last.err => Len(NewTexts) = Len(want)

C6_Witness ==
  /\ last.op = "Write" /\ ~last.err
  /\ last.trailer = <<"a">> /\ last.p = <<CR, LF>>
  /\ NewTexts = << <<"a", CR>> >>

\* ======================================================================
\* Properties of the safeWriter (checked under SpecS)
\* ======================================================================
Inside == {p \in 1..np : ppc[p] \in {"write", "unlock"}}

\* no byte of another tag lies between two bytes of the same tag
Contiguous(tag) ==
  \A i, k \in 1..Len(W) :
    (i < k /\ tag[i] = tag[k]) => \A j \in i..k : tag[j] = tag[i]

\* C7: at most one producer is inside the underlying destination write at any
\* instant, and the bytes of one safeWriter.Write call are never interleaved in
\* the destination with the bytes of another call.
C7_MutualExclusion ==
  /\ Cardinality(Inside) <= 1
  /\ Contiguous([i \in 1..Len(W) |-> <<W[i].by, W[i].call>>])

C7_Witness ==
  \E p, q \in 1..np :
    /\ ppc[p] = "write" /\ off[p] >= 1
    /\ ppc[q] = "lock"
    /\ Len(W) > off[p]

\* C8: every labelled line of one task, from its colour-on sequence through
\* prefix and text to its colour-off sequence and newline, is contiguous in the
\* destination, with no byte of another task's line inside it.
C8_LinesContiguous ==
  Contiguous([i \in 1..Len(W) |-> W[i].by])

\* ======================================================================
\* Properties of the safeWriter over a failing destination (checked under SpecF)
\* ======================================================================
\* the bytes of p's call number k that the destination took
BytesOf(p, k) == Cardinality({i \in 1..Len(W) : W[i].by = p /\ W[i].call = k})

\* safeWriter.Write returns what the destination returned: the count of the
\* bytes it took and whether it failed
ReturnsUnchanged ==
  \A p \in 1..np :
    ret[p].no > 0 =>
      /\ ret[p].n = BytesOf(p, ret[p].no)
      /\ ret[p].err = (<<p, ret[p].no>> \in failed)
      /\ ret[p].err => ret[p].n < ret[p].len

\* the mutex is held exactly while a producer is between Lock and Unlock, its
\* holder can always go on, and a free mutex is there for whoever waits for it
LockReleased ==
  /\ mu = (Inside # {})
  /\ Cardinality(Inside) <= 1
  /\ \A p \in Inside : ENABLED SWUnlock(p) \/ ENABLED SWWriteByte(p)
  /\ \A q \in 1..np : (ppc[q] = "lock" /\ ~mu) => ENABLED SWLock(q)

\* a producer whose destination write failed gets an error from its
\* colorizer.Write
ErrorPropagated ==
  \A p \in 1..np :
    (ppc[p] = "done" /\ \E f \in failed : f[1] = p) => cerr[p]

\* C17: when the destination write fails, safeWriter.Write returns the
\* destination's count and error unchanged and releases the mutex, so that
\* other producers still acquire the sink, and the colorizer's Write hands
\* that error to its caller.
C17_SinkFailure == ReturnsUnchanged /\ LockReleased /\ ErrorPropagated

\* the error of a failed write of a line's text does reach the caller
TextErrorPropagated ==
  \A p \in 1..np :
    (ppc[p] = "done" /\ \E f \in failed : f[1] = p /\ CallKind(f[2]) = "text") => cerr[p]

\* ======================================================================
\* Properties of a run of main (checked under Spec and SpecFair)
\* ======================================================================
\* C9: main returns only after every dispatched task has reached a terminal
\* state, also when cancellation was triggered.
C9_ReturnsAfterAllTasks ==
  mainpc = "returned" => \A i \in Tasks : Terminal(i) /\ gpc[i] = "exited"

C9_Witness ==
  /\ mainpc = "returned" /\ NumTasks >= 2 /\ ranAtCancel # {}
  /\ \E i, j \in Tasks : TaskState(i) = "Failed" /\ TaskState(j) = "Cancelled"

SomeFailed == \E i \in Tasks : TaskState(i) = "Failed"

\* C10 as stated: with -fail set, every other task still running when the
\* context is cancelled ends in a state reflecting cancellation, not natural
\* completion.
C10_RunningTasksEndCancelled ==
  fail => \A i \in ranAtCancel : Terminal(i) => TaskState(i) = "Cancelled"

\* C10 as amended: with -fail set, a task's failure cancels the context (before
\* the failing task closes its colorizers); a task whose subprocess is running
\* then ends in a state reflecting cancellation unless the subprocess exits on
\* its own before it is killed; and every task reaches a terminal state: the
\* run never stops with a failure not yet signalled, nor with the context
\* cancelled and a task unfinished (every step of a run makes progress, so a
\* run that cannot stop there gets past it).
C10_FailFastCancels ==
  /\ \A i \in Tasks :
       (fail /\ TaskState(i) = "Failed" /\ gpc[i] \in {"close", "exited"}) => ctx
  /\ \A i \in ranAtCancel :
       Terminal(i) => (TaskState(i) = "Cancelled" \/ proc[i] = "exited")
  /\ \A i \in ranAtCancel :
       (Terminal(i) /\ ~tasks[i].exits) => TaskState(i) = "Cancelled"
  /\ (fail /\ SomeFailed /\ ~ctx) => ENABLED Next
  /\ (ctx /\ \E i \in Tasks : ~Terminal(i)) => ENABLED Next

C10_Witness ==
  /\ fail /\ ctx
  /\ \E i, j \in Tasks :
       /\ TaskState(i) = "Failed"
       /\ j \in ranAtCancel /\ tasks[j].name = "sleep" /\ TaskState(j) = "Cancelled"

\* the bytes the subprocess of task i has written so far to a stream on which
\* it writes all and has left still
Received(all, left, i) ==
  IF proc[i] = "none" THEN <<>> ELSE SubSeq(all, 1, Len(all) - Len(left))

\* what task i's colorizers were given: the subprocess's bytes and, on
\* stderr before them, the announcement
OutInput(i) == Received(tasks[i].out, pout[i], i)
ErrInput(i) == Announcement(i, tasks[i]) \o Received(tasks[i].err, perr[i], i)

IsSuffix(t, seg) ==
  Len(t) <= Len(seg) /\ t = SubSeq(seg, Len(seg) - Len(t) + 1, Len(seg))

\* the lines the colorizer wrote are, one for one and in the same order, the
\* newline-terminated lines of its input (each line's text is the line's end:
\* what of the line was in the carry, followed by its last chunk), followed,
\* once the colorizer is closed on a non-empty carry, by a line for the
\* input's unterminated end
InInputOrder(lines, inp, cz, closed) ==
  LET segs == Terminated(inp) \o
                (IF closed /\ cz.trailer # <<>> THEN <<Remainder(inp)>> ELSE <<>>)
  IN /\ Len(lines) = Len(segs)
     /\ \A k \in 1..Len(lines) : IsSuffix(lines[k], segs[k])

\* the text of task i's diagnostic line, its prefix stripped
DiagText(i) == <<"command failed with ", err[i]>>

\* the lines of stderr[i] that its colorizer wrote
ErrLines(i) == SelectSeq(LineTexts(stderr[i], Prefix(i)), LAMBDA t : t # DiagText(i))

\* C13: within one task's stream (stdout, and separately stderr) the labelled
\* lines are in the destination in the order in which their newlines came in
\* the stream's input, whatever the other tasks do meanwhile.
C13_LinesInInputOrder ==
  \A i \in DOMAIN colorOut :
    /\ InInputOrder(LineTexts(stdout[i], Prefix(i)), OutInput(i), colorOut[i],
                    gpc[i] = "exited")
    /\ InInputOrder(ErrLines(i), ErrInput(i), colorErr[i], gpc[i] = "exited")

C13_Witness ==
  \E i, j \in Tasks :
    /\ i # j /\ tasks[i].name = "echo" /\ tasks[j].name = "echo"
    /\ gpc[i] = "exited" /\ proc[j] = "running" /\ pout[j] = <<LF>>
    /\ LineTexts(stdout[i], Prefix(i)) = << <<>>, <<"a">> >>
    /\ LineTexts(stdout[j], Prefix(j)) = << <<>> >> /\ colorOut[j].trailer = <<"a">>

\* what task i ends with when nothing but its own command decides it
OwnOutcome(i) ==
  IF err[i] = "start failure" THEN "Failed"
  ELSE IF tasks[i].code # 0 THEN "Failed" ELSE "Succeeded"

\* C11: without -fail no failure cancels: the context stays not cancelled
\* until every task is in a terminal state (only main's deferred cancel, at its
\* return, cancels it), no task ends Cancelled, and each task ends with the
\* outcome of its own command, whatever the other tasks did.
C11_NoFailNoCancel ==
  ~fail =>
    /\ ctx => (mainpc = "returned" /\ \A i \in Tasks : Terminal(i))
    /\ ranAtCancel = {}
    /\ \A i \in Tasks :
         /\ TaskState(i) # "Cancelled"
         /\ proc[i] # "killed"
         /\ Terminal(i) => TaskState(i) = OwnOutcome(i)

C11_Witness ==
  /\ ~fail /\ ~ctx
  /\ \E i, j \in Tasks :
       /\ TaskState(i) = "Failed" /\ gpc[i] = "exited"
       /\ tasks[j].name = "echo" /\ TaskState(j) = "Succeeded" /\ gpc[j] = "exited"
       /\ proc[j] = "exited" /\ i < j

\* C12: with more commands than colours the run aborts before anything
\* starts: no task leaves Pending, no colorizer is made, and nothing is
\* written for any task (no announcement, no output, no diagnostic).
C12_TooManyAborts ==
  NumTasks > Len(colors) =>
    /\ mainpc \in {"check", "fatal"}
    /\ colorOut = <<>> /\ colorErr = <<>>
    /\ wg = 0 /\ ~ctx
    /\ \A i \in Tasks :
         /\ TaskState(i) = "Pending" /\ proc[i] = "none" /\ err[i] = "none"
         /\ stdout[i] = <<>> /\ stderr[i] = <<>>

C12_Witness == mainpc = "fatal" /\ NumTasks = Len(colors) + 1

\* the first line of what os.Stderr received for task i, colour stripped
FirstErrLine(i) == SplitLines(StripColor(stderr[i]))[1]

\* the announcement's text: "{i}> Running: {command}"
RunningText(i) == Decimal(i) \o <<">", " ", "Running: ", tasks[i].name>>

\* C14: the announcement of task i is written before the task's execution
\* begins, and is one line whose text is "{i}> Running: {command}", with the
\* prefix "{i}> " once (written to the error sink itself, not through the
\* colorizer, which would label it again).
C14_AnnouncementOnce ==
  \A i \in Tasks :
    gpc[i] # "none" =>
      /\ stderr[i] # <<>>
      /\ FirstErrLine(i) = RunningText(i)

\* what the code writes: the announcement goes through colorErr and is
\* labelled again
AnnouncementLabelledTwice ==
  \A i \in Tasks :
    gpc[i] # "none" => FirstErrLine(i) = Prefix(i) \o RunningText(i)

\* the places of stderr[i] where seq begins
Occurrences(i, seq) ==
  {k \in 1..Len(stderr[i]) :
     k + Len(seq) - 1 <= Len(stderr[i]) /\ SubSeq(stderr[i], k, k + Len(seq) - 1) = seq}

\* task i's goroutine is past its test of runCommand's result
PastDiag(i) == gpc[i] \in {"cancel", "close", "exited"}

Unsuccessful(i) == err[i] \notin {"none", "nil"}

\* the diagnostic as a line of task i's normal output is rendered
RenderedDiagnostic(i) ==
  Flatten(ColorFprintf(colorErr[i], noColor, Diagnostic(i, err[i])))

\* C15: every task whose execution fails (non-zero exit, start failure,
\* cancellation) writes exactly one diagnostic line "{i}> command failed with
\* {error}" with its own index to the error sink, rendered in the task's colour
\* like its normal output; a task that succeeds writes none.
C15_DiagnosticColoured ==
  \A i \in Tasks :
    PastDiag(i) =>
      /\ Unsuccessful(i) =>
           /\ Cardinality(Occurrences(i, Diagnostic(i, err[i]))) = 1
           /\ Cardinality(Occurrences(i, RenderedDiagnostic(i))) = 1
      /\ ~Unsuccessful(i) =>
           \A e \in {"exit status 1", "start failure", "signal: killed", "context canceled"} :
             Occurrences(i, Diagnostic(i, e)) = {}

\* what the code writes: one diagnostic per unsuccessful task, none for a
\* successful one, with no colour sequence around it
DiagnosticPlain ==
  \A i \in Tasks :
    PastDiag(i) =>
      /\ Unsuccessful(i) =>
           /\ Cardinality(Occurrences(i, Diagnostic(i, err[i]))) = 1
           /\ \A k \in Occurrences(i, Diagnostic(i, err[i])) :
                stderr[i][k - 1] \notin ColorTokens \ {Reset}
      /\ ~Unsuccessful(i) =>
           \A e \in {"exit status 1", "start failure", "signal: killed", "context canceled"} :
             Occurrences(i, Diagnostic(i, e)) = {}

\* the input's unterminated end, if it has one, is the last line written
TrailingLineEmitted(lines, inp) ==
  Remainder(inp) # <<>> => (lines # <<>> /\ lines[Len(lines)] = Remainder(inp))

\* every task's goroutine closes both colorizers, after runCommand has
\* returned and before main returns
ClosedOnEveryPath ==
  \A i \in Tasks :
    /\ gpc[i] = "exited" => Terminal(i)
    /\ (mainpc = "returned") => gpc[i] = "exited"

\* C16: whatever its outcome, each task closes its stdout and its stderr
\* colorizer after its execution completes and before main returns, so that an
\* unterminated trailing line of either stream is emitted before the run ends.
C16_ClosesFlushTrailingLine ==
  /\ ClosedOnEveryPath
  /\ \A i \in Tasks :
       gpc[i] = "exited" =>
         /\ TrailingLineEmitted(LineTexts(stdout[i], Prefix(i)), OutInput(i))
         /\ TrailingLineEmitted(ErrLines(i), ErrInput(i))

\* C18: after any sequence of Write and Close calls the colorizer's carry
\* holds no newline byte: it is at most one partial line.
C18_TrailerHasNoNewline ==
  \A k \in 1..Len(c.trailer) : c.trailer[k] # LF

C18_Witness ==
  /\ last.op = "Write" /\ last.p = <<LF, "a">> /\ last.trailer = <<"a">>
  /\ c.trailer = <<"a">> /\ nwrites = 2

\* a subprocess that is running either exits on its own or is being killed
RunningOnesEnd == \A i \in Tasks : proc[i] = "running" => (tasks[i].exits \/ ctx)

EventuallyReturns ==
  []<>RunningOnesEnd => <>(mainpc \in {"returned", "fatal"})

EndsWith(seq, t) ==
  Len(t) <= Len(seq) /\ SubSeq(seq, Len(seq) - Len(t) + 1, Len(seq)) = t

\* C20: a failing task's diagnostic is written before its colorizers are
\* closed: until the close it is the last thing in the error destination for
\* the task, and an unterminated last line of the task's stderr comes out
\* after it.
C20_DiagnosticBeforeFlush ==
  \A i \in Tasks :
    Unsuccessful(i) =>
      /\ gpc[i] \in {"cancel", "close"} => EndsWith(stderr[i], Diagnostic(i, err[i]))
      /\ gpc[i] = "exited" =>
           EndsWith(StripColor(stderr[i]),
                    Diagnostic(i, err[i]) \o
                      (IF colorErr[i].trailer # <<>>
                         THEN Prefix(i) \o colorErr[i].trailer \o <<LF>> ELSE <<>>))

C20_Witness ==
  \E i \in Tasks :
    /\ tasks[i].name = "bad" /\ err[i] = "exit status 1" /\ gpc[i] = "exited"
    /\ colorErr[i].trailer # <<>>
    /\ EndsWith(StripColor(stderr[i]),
                Diagnostic(i, err[i]) \o Prefix(i) \o colorErr[i].trailer \o <<LF>>)

====
